---- MODULE Spec2Model ----
(***************************************************************************)
(* Verification model of hardyjosh/sqlite-wasm-demo.                       *)
(*                                                                         *)
(*  - MockCoordinator (src/src/coordinator.rs): the read/write access      *)
(*    arbiter with its FIFO write queue and the transaction flag.          *)
(*  - TabState / handle_message                                            *)
(*    (src/crates/tab_coordinator_shared_worker/src/lib.rs): the broker.   *)
(*  - TabManager (src/crates/tab_coordinator/src/lib.rs) and BrowserSQLite *)
(*    (src/crates/browser_sqlite/src/lib.rs): the participant client.      *)
(***************************************************************************)
EXTENDS Integers, Sequences, FiniteSets, TLC

(***************************************************************************)
(* Option<T>: None is the empty tuple, Some(x) the one-element tuple.      *)
(***************************************************************************)
None == <<>>

Some(x) == <<x>>

IsSome(o) == o # None

Unwrap(o) == o[1]

(***************************************************************************)
(* Bounds of the MockCoordinator model.                                    *)
(***************************************************************************)
MaxQueue == 3

MaxEnqueued == 4

\* migrate_active_tab, simulate_tab_timeout: let timeout = 5000.0
TimeoutMs == 5000

\* the clock of get_time_ms() advances in steps of TickMs up to MaxTime
TickMs == 2500

MaxTime == 7500

\* insertions of a new key in tab_health
MaxTabRegistrations == 4

\* calls of queue_operation
MaxQueueOperations == 2

(***************************************************************************)
(* Bounds of the ConnectionPool model.                                     *)
(***************************************************************************)
\* cleanup_stale_connections: let stale_threshold = 300_000.0
StaleThresholdMs == 300000

\* ConnectionPool::new(max_size) is called with 1..MaxPoolSize
MaxPoolSize == 3

\* calls of acquire, release and cleanup_stale_connections
MaxPoolCalls == 6

\* while the pool is used the clock advances in steps of PoolTickMs up to
\* PoolMaxTime
PoolTickMs == 150000

PoolMaxTime == 450000

Workers == {"w1", "w2", "w3"}

Operations == {"write", "read", "vacuum"}

(***************************************************************************)
(* Bounds of the broker model.                                             *)
(***************************************************************************)
TabOrder == <<"tab1", "tab2", "tab3">>

Tabs == {TabOrder[i] : i \in DOMAIN TabOrder}

\* The tab ids are random UUIDs, so the participants are interchangeable.
\* They are named in the order in which their pages are opened and in which
\* the broker handles their Register: Index(p) is the rank of p in that order.
Index(p) == CHOOSE i \in DOMAIN TabOrder : TabOrder[i] = p

MaxRegistrations == 5
\* Register messages for an id that is registered already
MaxReregistrations == 2

MaxCalls == 2

MaxUnloads == 1

\* messages that the broker has posted to ports and no page has taken
MaxForwarded == 2

VARIABLES
    \* CoordinatorState (src/src/coordinator.rs:28-37)
    active_writer,        \* Option<String>
    write_queue,          \* VecDeque<QueuedRequest>
    active_readers,       \* key set of HashMap<String, ()>
    current_transaction,  \* Option<TransactionState> (the owner tab id)
    \* outcome of the last call on the coordinator
    poisoned,             \* a call panicked while holding state.lock()
    last_call,            \* name and arguments of the last call
    response,             \* Option<AccessResponse> returned by the last call
    \* history of the write queue
    enqueued,             \* number of requests pushed on write_queue so far
    grant_log,            \* tickets granted by get_next_queued_response, in order
    \* CoordinatorState, the tabs
    active_tab,           \* Option<String>
    tab_health,           \* HashMap<String, f64>: tab id -> time of its registration
    now,                  \* what get_time_ms() returns
    tab_registered_at,    \* history: when each key of tab_health was inserted
    tab_clock,            \* history: number of keys inserted in tab_health so far
    last_tab_call,        \* history: the last call about tabs, and active_tab before it
    pending_operations,   \* Vec<PendingOperation>
    queue_calls,          \* history: number of calls of queue_operation so far
    route_result,         \* history: what the last call about tabs returned, if anything
    \* ConnectionPool (src/src/connection_pool.rs:12-15)
    max_size,             \* Option<usize>: None until ConnectionPool::new
    connections,          \* HashMap<String, Connection>
    held,                 \* history: id -> number of Connections handed out, not released
    pool_calls,           \* history: number of calls on the pool so far
    last_pool_call,       \* history: the last call on the pool and what it returned
    \* TabState of the broker (tab_coordinator_shared_worker/src/lib.rs:41-44)
    tabs,                 \* VecDeque<String>
    ports,                \* HashMap<String, MessagePort>: tab id -> owner of the port
    registered_at,        \* history: when each id of tabs was pushed on tabs
    reg_clock,            \* history: number of pushes on tabs so far
    reregistered,         \* history: number of Register messages for an id in tabs
    \* the message ports between the participants and the broker
    to_broker,            \* per port: messages posted by the participant
    to_tab,               \* per port: messages posted by the broker
    \* the participants: TabManager + BrowserSQLite + the page they live in
    client,               \* per participant: the fields of TabManager and its tasks
    calls                 \* number of calls made on the participants so far

migrationVars == <<active_tab, tab_health, now, tab_registered_at, tab_clock,
                   last_tab_call>>

poolVars == <<max_size, connections, held, pool_calls, last_pool_call>>

logVars == <<pending_operations, queue_calls>>

opVars == <<logVars, route_result>>

coordVars == <<active_writer, write_queue, active_readers, current_transaction,
               poisoned, last_call, response, enqueued, grant_log, migrationVars,
               poolVars, opVars>>

registryVars == <<tabs, ports, registered_at, reg_clock, reregistered>>

portVars == <<to_broker, to_tab>>

clientVars == <<client, calls>>

vars == <<coordVars, registryVars, portVars, clientVars>>

(***************************************************************************)
(* MockCoordinator                                                         *)
(***************************************************************************)
AccessResponse(g, w, o, q) ==
    [granted |-> g, worker_id |-> w, operation |-> o, queue_position |-> q]

QueuedRequest(w, o, t) == [worker_id |-> w, operation |-> o, ticket |-> t]

Call(n, w, o) == [name |-> n, worker_id |-> w, operation |-> o]

TabCall(n, t, a) == [name |-> n, tab_id |-> t, active_before |-> a]

InitCoordinator ==
    /\ active_writer = None
    /\ write_queue = <<>>
    /\ active_readers = {}
    /\ current_transaction = None
    /\ poisoned = FALSE
    /\ last_call = Call("new", "", "")
    /\ response = None
    /\ enqueued = 0
    /\ grant_log = <<>>
    /\ active_tab = None
    /\ tab_health = <<>>
    /\ now = 0
    /\ tab_registered_at = <<>>
    /\ tab_clock = 0
    /\ last_tab_call = TabCall("new", "", None)
    /\ pending_operations = <<>>
    /\ queue_calls = 0
    /\ route_result = None

\* a write arm that grants whenever no writer is active, readers or not
RequestAccessWrite_IgnoreReaders(worker_id, operation) ==
    /\ IF active_writer = None
       THEN /\ active_writer' = Some(worker_id)
            /\ response' = Some(AccessResponse(TRUE, worker_id, operation, None))
            /\ UNCHANGED <<write_queue, enqueued>>
       ELSE /\ Len(write_queue) < MaxQueue /\ enqueued < MaxEnqueued
            /\ write_queue' = Append(write_queue,
                                     QueuedRequest(worker_id, operation, enqueued + 1))
            /\ enqueued' = enqueued + 1
            /\ response' = Some(AccessResponse(FALSE, worker_id, operation,
                                               Some(Len(write_queue') - 1)))
            /\ UNCHANGED active_writer
    /\ UNCHANGED <<active_readers, poisoned>>

\* request_access, the "write" arm of the match
RequestAccessWrite(worker_id, operation) ==
    /\ IF active_writer = None /\ active_readers = {}
       THEN /\ active_writer' = Some(worker_id)
            /\ response' = Some(AccessResponse(TRUE, worker_id, operation, None))
            /\ UNCHANGED <<write_queue, enqueued>>
       ELSE /\ Len(write_queue) < MaxQueue /\ enqueued < MaxEnqueued
            /\ write_queue' = Append(write_queue,
                                     QueuedRequest(worker_id, operation, enqueued + 1))
            /\ enqueued' = enqueued + 1
            /\ response' = Some(AccessResponse(FALSE, worker_id, operation,
                                               Some(Len(write_queue') - 1)))
            /\ UNCHANGED active_writer
    /\ UNCHANGED <<active_readers, poisoned>>

\* request_access without the early return: the write arm decides
RequestAccessBlocked_FallThrough(worker_id, operation) ==
    RequestAccessWrite(worker_id, operation)

\* an early return that puts the rejected request at the tail of the queue
RequestAccessBlocked_Enqueue(worker_id, operation) ==
    /\ Len(write_queue) < MaxQueue /\ enqueued < MaxEnqueued
    /\ write_queue' = Append(write_queue,
                             QueuedRequest(worker_id, operation, enqueued + 1))
    /\ enqueued' = enqueued + 1
    /\ response' = Some(AccessResponse(FALSE, worker_id, operation,
                                       Some(Len(write_queue))))
    /\ UNCHANGED <<active_writer, active_readers, poisoned>>

\* request_access, the early return taken while a transaction is active
RequestAccessBlocked(worker_id, operation) ==
    /\ response' = Some(AccessResponse(FALSE, worker_id, operation,
                                       Some(Len(write_queue))))
    /\ UNCHANGED <<active_writer, write_queue, active_readers, enqueued, poisoned>>

\* a read arm that grants without looking at active_writer
RequestAccessRead_Unchecked(worker_id, operation) ==
    /\ active_readers' = active_readers \cup {worker_id}
    /\ response' = Some(AccessResponse(TRUE, worker_id, operation, None))
    /\ UNCHANGED <<active_writer, write_queue, enqueued, poisoned>>

\* a read arm that grants only a fully free lock, as the write arm does
RequestAccessRead_Exclusive(worker_id, operation) ==
    /\ IF active_writer = None /\ active_readers = {}
       THEN /\ active_readers' = active_readers \cup {worker_id}
            /\ response' = Some(AccessResponse(TRUE, worker_id, operation, None))
       ELSE /\ response' = Some(AccessResponse(FALSE, worker_id, operation, None))
            /\ UNCHANGED active_readers
    /\ UNCHANGED <<active_writer, write_queue, enqueued, poisoned>>

\* request_access, the "read" arm of the match
RequestAccessRead(worker_id, operation) ==
    /\ IF active_writer = None
       THEN /\ active_readers' = active_readers \cup {worker_id}
            /\ response' = Some(AccessResponse(TRUE, worker_id, operation, None))
       ELSE /\ response' = Some(AccessResponse(FALSE, worker_id, operation, None))
            /\ UNCHANGED active_readers
    /\ UNCHANGED <<active_writer, write_queue, enqueued, poisoned>>

\* request_access, the catch-all arm: panic!("Unknown operation type")
RequestAccessUnknown(worker_id, operation) ==
    /\ poisoned' = TRUE
    /\ response' = None
    /\ UNCHANGED <<active_writer, write_queue, active_readers, enqueued>>

RequestAccess(worker_id, operation) ==
    /\ ~poisoned
    /\ UNCHANGED <<registryVars, portVars, clientVars, migrationVars, poolVars, opVars>>
    /\ last_call' = Call("request_access", worker_id, operation)
    /\ IF operation = "write" /\ IsSome(current_transaction)
       THEN RequestAccessBlocked(worker_id, operation)
       ELSE CASE operation = "write" -> RequestAccessWrite(worker_id, operation)
              [] operation = "read" -> RequestAccessRead(worker_id, operation)
              [] OTHER -> RequestAccessUnknown(worker_id, operation)
    /\ UNCHANGED <<current_transaction, grant_log>>

\* a completion that hands the freed lock to the oldest queued request
CompleteOperation_AutoGrant(worker_id) ==
    /\ ~poisoned
    /\ UNCHANGED <<registryVars, portVars, clientVars, migrationVars, poolVars, opVars>>
    /\ last_call' = Call("complete_operation", worker_id, "")
    /\ active_readers' = active_readers \ {worker_id}
    /\ LET writer == IF active_writer = Some(worker_id) THEN None ELSE active_writer IN
       IF writer = None /\ active_readers' = {} /\ write_queue # <<>>
       THEN /\ active_writer' = Some(Head(write_queue).worker_id)
            /\ write_queue' = Tail(write_queue)
            /\ grant_log' = Append(grant_log, Head(write_queue).ticket)
       ELSE /\ active_writer' = writer
            /\ UNCHANGED <<write_queue, grant_log>>
    /\ response' = None
    /\ UNCHANGED <<current_transaction, poisoned, enqueued>>

\* MockCoordinator::complete_operation
CompleteOperation(worker_id) ==
    /\ ~poisoned
    /\ UNCHANGED <<registryVars, portVars, clientVars, migrationVars, poolVars, opVars>>
    /\ last_call' = Call("complete_operation", worker_id, "")
    /\ active_writer' = IF active_writer = Some(worker_id) THEN None ELSE active_writer
    /\ active_readers' = active_readers \ {worker_id}
    /\ response' = None
    /\ UNCHANGED <<write_queue, current_transaction, poisoned, enqueued, grant_log>>

\* a drain that takes the newest request (pop_back) instead of the oldest
GetNextQueuedResponse_PopBack ==
    /\ ~poisoned
    /\ UNCHANGED <<registryVars, portVars, clientVars, migrationVars, poolVars, opVars>>
    /\ last_call' = Call("get_next_queued_response", "", "")
    /\ write_queue # <<>>
    /\ active_writer = None /\ active_readers = {}
    /\ LET next_request == write_queue[Len(write_queue)] IN
       /\ write_queue' = SubSeq(write_queue, 1, Len(write_queue) - 1)
       /\ active_writer' = Some(next_request.worker_id)
       /\ response' = Some(AccessResponse(TRUE, next_request.worker_id,
                                          next_request.operation, None))
       /\ grant_log' = Append(grant_log, next_request.ticket)
    /\ UNCHANGED <<active_readers, current_transaction, enqueued, poisoned>>

\* a drain that returns nothing instead of panicking, and keeps the queue,
\* when there is nothing it can grant
GetNextQueuedResponse_Lenient ==
    /\ ~poisoned
    /\ UNCHANGED <<registryVars, portVars, clientVars, migrationVars, poolVars, opVars>>
    /\ last_call' = Call("get_next_queued_response", "", "")
    /\ IF write_queue # <<>> /\ active_writer = None /\ active_readers = {}
       THEN LET next_request == Head(write_queue) IN
            /\ write_queue' = Tail(write_queue)
            /\ active_writer' = Some(next_request.worker_id)
            /\ response' = Some(AccessResponse(TRUE, next_request.worker_id,
                                               next_request.operation, None))
            /\ grant_log' = Append(grant_log, next_request.ticket)
       ELSE /\ response' = None
            /\ UNCHANGED <<active_writer, write_queue, grant_log>>
    /\ UNCHANGED <<active_readers, current_transaction, enqueued, poisoned>>

\* MockCoordinator::get_next_queued_response
GetNextQueuedResponse ==
    /\ ~poisoned
    /\ UNCHANGED <<registryVars, portVars, clientVars, migrationVars, poolVars, opVars>>
    /\ last_call' = Call("get_next_queued_response", "", "")
    /\ IF write_queue # <<>>
       THEN LET next_request == Head(write_queue) IN
            /\ write_queue' = Tail(write_queue)
            /\ IF active_writer = None /\ active_readers = {}
               THEN /\ active_writer' = Some(next_request.worker_id)
                    /\ response' = Some(AccessResponse(TRUE, next_request.worker_id,
                                                       next_request.operation, None))
                    /\ grant_log' = Append(grant_log, next_request.ticket)
                    /\ UNCHANGED poisoned
               ELSE \* panic!("Unexpected state: Cannot grant access to queued request")
                    /\ poisoned' = TRUE
                    /\ response' = None
                    /\ UNCHANGED <<active_writer, grant_log>>
       ELSE \* panic!("No queued requests")
            /\ poisoned' = TRUE
            /\ response' = None
            /\ UNCHANGED <<active_writer, write_queue, grant_log>>
    /\ UNCHANGED <<active_readers, current_transaction, enqueued>>

BeginTransaction(tab_id) ==
    /\ ~poisoned
    /\ UNCHANGED <<registryVars, portVars, clientVars, migrationVars, poolVars, opVars>>
    /\ last_call' = Call("begin_transaction", tab_id, "")
    /\ current_transaction' = Some(tab_id)
    /\ response' = None
    /\ UNCHANGED <<active_writer, write_queue, active_readers, poisoned,
                   enqueued, grant_log>>

\* a commit that grants the oldest queued request when the lock is free
CommitTransaction_Drain(tab_id) ==
    /\ ~poisoned
    /\ UNCHANGED <<registryVars, portVars, clientVars, migrationVars, poolVars, opVars>>
    /\ last_call' = Call("commit_transaction", tab_id, "")
    /\ current_transaction' = None
    /\ response' = None
    /\ IF active_writer = None /\ active_readers = {} /\ write_queue # <<>>
       THEN /\ active_writer' = Some(Head(write_queue).worker_id)
            /\ write_queue' = Tail(write_queue)
            /\ grant_log' = Append(grant_log, Head(write_queue).ticket)
       ELSE UNCHANGED <<active_writer, write_queue, grant_log>>
    /\ UNCHANGED <<active_readers, poisoned, enqueued>>

\* MockCoordinator::commit_transaction
CommitTransaction(tab_id) ==
    /\ ~poisoned
    /\ UNCHANGED <<registryVars, portVars, clientVars, migrationVars, poolVars, opVars>>
    /\ last_call' = Call("commit_transaction", tab_id, "")
    /\ current_transaction' = None
    /\ response' = None
    /\ UNCHANGED <<active_writer, write_queue, active_readers, poisoned,
                   enqueued, grant_log>>

NextCoordinator ==
    \/ \E w \in Workers, o \in Operations : RequestAccess(w, o)
    \/ \E w \in Workers : CompleteOperation(w)
    \/ GetNextQueuedResponse
    \/ \E t \in Workers : BeginTransaction(t)
    \/ \E t \in Workers : CommitTransaction(t)

(***************************************************************************)
(* MockCoordinator, the tabs: register_tab, set_active_tab,                *)
(* notify_tab_closed with migrate_active_tab, simulate_tab_timeout.        *)
(***************************************************************************)
lockVars == <<active_writer, write_queue, active_readers, current_transaction,
              poisoned, last_call, response, enqueued, grant_log>>

\* HashMap::remove
RemoveKey(map, key) == [k \in DOMAIN map \ {key} |-> map[k]]

\* the entries of `health` that pass (current_time - last_seen) < timeout
\* a liveness test that still accepts a heartbeat exactly TimeoutMs old
Healthy_Inclusive(health) == {t \in DOMAIN health : now - health[t] <= TimeoutMs}

\* (current_time - last_seen) < timeout
Healthy(health) == {t \in DOMAIN health : now - health[t] < TimeoutMs}

\* a migration that takes any other registered tab, stale or not
migrate_active_tab_AnyTab(health) ==
    LET next_tab == {t \in DOMAIN health : Some(t) # active_tab} IN
    IF next_tab # {}
    THEN active_tab' \in {Some(t) : t \in next_tab}
    ELSE UNCHANGED active_tab

\* MockCoordinator::migrate_active_tab on the map `health`: find() returns
\* the first match in the iteration order of the HashMap, which is any match
migrate_active_tab(health) ==
    LET next_tab == {t \in Healthy(health) : Some(t) # active_tab} IN
    IF next_tab # {}
    THEN active_tab' \in {Some(t) : t \in next_tab}
    ELSE UNCHANGED active_tab

\* MockCoordinator::register_tab
RegisterTab(tab_id) ==
    /\ ~poisoned
    /\ last_tab_call' = TabCall("register_tab", tab_id, active_tab)
    /\ tab_health' = (tab_id :> now) @@ tab_health
    /\ IF tab_id \in DOMAIN tab_health
       THEN UNCHANGED <<tab_registered_at, tab_clock>>
       ELSE /\ tab_clock < MaxTabRegistrations
            /\ tab_clock' = tab_clock + 1
            /\ tab_registered_at' = (tab_id :> (tab_clock + 1)) @@ tab_registered_at
    /\ UNCHANGED <<active_tab, now, lockVars, registryVars, portVars, clientVars, poolVars, logVars>>
    /\ route_result' = None

\* MockCoordinator::set_active_tab
SetActiveTab(tab_id) ==
    /\ ~poisoned
    /\ last_tab_call' = TabCall("set_active_tab", tab_id, active_tab)
    /\ active_tab' = Some(tab_id)
    /\ UNCHANGED <<tab_health, now, tab_registered_at, tab_clock>>
    /\ UNCHANGED <<lockVars, registryVars, portVars, clientVars, poolVars, logVars>>
    /\ route_result' = None

\* MockCoordinator::notify_tab_closed
NotifyTabClosed(tab_id) ==
    /\ ~poisoned
    /\ last_tab_call' = TabCall("notify_tab_closed", tab_id, active_tab)
    /\ tab_health' = RemoveKey(tab_health, tab_id)
    /\ tab_registered_at' = RemoveKey(tab_registered_at, tab_id)
    /\ IF active_tab = Some(tab_id)
       THEN migrate_active_tab(RemoveKey(tab_health, tab_id))
       ELSE UNCHANGED active_tab
    /\ UNCHANGED <<now, tab_clock, lockVars, registryVars, portVars, clientVars, poolVars, logVars>>
    /\ route_result' = None

\* MockCoordinator::simulate_tab_timeout
SimulateTabTimeout(tab_id) ==
    /\ ~poisoned
    /\ last_tab_call' = TabCall("simulate_tab_timeout", tab_id, active_tab)
    /\ tab_health' = RemoveKey(tab_health, tab_id)
    /\ tab_registered_at' = RemoveKey(tab_registered_at, tab_id)
    /\ IF active_tab = Some(tab_id)
       THEN LET next_tab == Healthy(RemoveKey(tab_health, tab_id)) IN
            IF next_tab # {}
            THEN active_tab' \in {Some(t) : t \in next_tab}
            ELSE active_tab' = None
       ELSE UNCHANGED active_tab
    /\ UNCHANGED <<now, tab_clock, lockVars, registryVars, portVars, clientVars, poolVars, logVars>>
    /\ route_result' = None

\* time passes between two calls
Tick ==
    /\ now + TickMs <= MaxTime
    /\ now' = now + TickMs
    /\ UNCHANGED <<active_tab, tab_health, tab_registered_at, tab_clock, last_tab_call>>
    /\ UNCHANGED <<lockVars, registryVars, portVars, clientVars, poolVars, opVars>>

\* QueryResult { routed_through, data: vec![] }
QueryResult(routed_through) == [routed_through |-> routed_through, data |-> <<>>]

RouteOk(result) == [ok |-> TRUE, value |-> Some(result), error |-> ""]

RouteErr(e) == [ok |-> FALSE, value |-> None, error |-> e]

\* a coordinator that serves only the tabs it knows
RoutedThrough_RegisteredOnly(from_tab) ==
    IF IsSome(active_tab) /\ from_tab \in DOMAIN tab_health
    THEN RouteOk(QueryResult(Unwrap(active_tab)))
    ELSE RouteErr("No active tab available")

\* the value of MockCoordinator::route_query(_from_tab, _query)
RoutedThrough(from_tab) ==
    IF IsSome(active_tab)
    THEN RouteOk(QueryResult(Unwrap(active_tab)))
    ELSE RouteErr("No active tab available")

\* MockCoordinator::route_query
CoordinatorRouteQuery(from_tab) ==
    /\ ~poisoned
    /\ last_tab_call' = TabCall("route_query", from_tab, active_tab)
    /\ route_result' = Some(RoutedThrough(from_tab))
    /\ UNCHANGED <<active_tab, tab_health, now, tab_registered_at, tab_clock>>
    /\ UNCHANGED <<logVars, lockVars, registryVars, portVars, clientVars, poolVars>>

\* PendingOperation { id, sql, tab_id, timestamp }
PendingOperation(id, sql, tab_id, timestamp) ==
    [id |-> id, sql |-> sql, tab_id |-> tab_id, timestamp |-> timestamp]

\* format!("op-{}", state.pending_operations.len())
OpId(len) == "op-" \o ToString(len)

\* a log that keeps only the latest operation
queue_operation_Replace(log, tab_id, sql) ==
    <<PendingOperation(OpId(Len(log)), sql, tab_id, now)>>

\* queue_operation: state.pending_operations.push(PendingOperation { .. })
queue_operation(log, tab_id, sql) ==
    Append(log, PendingOperation(OpId(Len(log)), sql, tab_id, now))

\* MockCoordinator::queue_operation
QueueOperation(tab_id, sql) ==
    /\ ~poisoned
    /\ queue_calls < MaxQueueOperations
    /\ queue_calls' = queue_calls + 1
    /\ pending_operations' = queue_operation(pending_operations, tab_id, sql)
    /\ last_tab_call' = TabCall("queue_operation", tab_id, active_tab)
    /\ route_result' = None
    /\ UNCHANGED <<active_tab, tab_health, now, tab_registered_at, tab_clock>>
    /\ UNCHANGED <<lockVars, registryVars, portVars, clientVars, poolVars>>

\* MockCoordinator::get_completed_operations (and get_pending_operations)
get_completed_operations == pending_operations

NextMigration ==
    \/ \E t \in Tabs : RegisterTab(t)
    \/ \E t \in Tabs : SetActiveTab(t)
    \/ \E t \in Tabs : NotifyTabClosed(t)
    \/ \E t \in Tabs : SimulateTabTimeout(t)
    \/ \E t \in Tabs : CoordinatorRouteQuery(t)
    \/ Tick

(***************************************************************************)
(* ConnectionPool                                                          *)
(***************************************************************************)
Connection(id, initialized, last_used, reused) ==
    [id |-> id, initialized |-> initialized, last_used |-> last_used,
     reused |-> reused]

PoolCall(n, ok, conn, error) == [name |-> n, ok |-> ok, conn |-> conn, error |-> error]

InitPool ==
    /\ max_size = None
    /\ connections = <<>>
    /\ held = <<>>
    /\ pool_calls = 0
    /\ last_pool_call = PoolCall("none", TRUE, None, "")

\* format!("conn-{}", connections.len())
ConnId(len) == "conn-" \o ToString(len)

\* one more, or one less, Connection with this id is in the hands of a caller
Hold(h, id) == IF id \in DOMAIN h THEN [h EXCEPT ![id] = @ + 1] ELSE (id :> 1) @@ h

Unhold(h, id) == IF h[id] > 1 THEN [h EXCEPT ![id] = @ - 1] ELSE RemoveKey(h, id)

\* a pool that never finds a slot to reuse
FreeSlots_None == {}

\* acquire: the slots that pass find(|c| !c.initialized)
FreeSlots == {id \in DOMAIN connections : ~connections[id].initialized}

\* a pool without the test of its size
BelowMaxSize_Always == TRUE

\* acquire: connections.len() < self.max_size
BelowMaxSize == Cardinality(DOMAIN connections) < Unwrap(max_size)

\* the rest of the state while the pool is called
PoolFrame ==
    UNCHANGED <<lockVars, migrationVars, opVars, registryVars, portVars, clientVars,
                max_size>>

\* ConnectionPool::new
NewPool(n) ==
    /\ max_size = None
    /\ max_size' = Some(n)
    /\ UNCHANGED <<connections, held, pool_calls, last_pool_call>>
    /\ UNCHANGED <<lockVars, migrationVars, opVars, registryVars, portVars, clientVars>>

\* ConnectionPool::acquire; values_mut().find() returns the first free slot
\* in the iteration order of the HashMap, which is any free slot
Acquire ==
    /\ IsSome(max_size)
    /\ pool_calls < MaxPoolCalls
    /\ pool_calls' = pool_calls + 1
    /\ IF FreeSlots # {}
       THEN \E id \in FreeSlots :
               LET conn == Connection(id, TRUE, now, TRUE) IN
               /\ connections' = [connections EXCEPT ![id] = conn]
               /\ held' = Hold(held, id)
               /\ last_pool_call' = PoolCall("acquire", TRUE, Some(conn), "")
       ELSE IF BelowMaxSize
       THEN LET conn == Connection(ConnId(Cardinality(DOMAIN connections)),
                                   TRUE, now, FALSE) IN
            /\ connections' = (conn.id :> conn) @@ connections
            /\ held' = Hold(held, conn.id)
            /\ last_pool_call' = PoolCall("acquire", TRUE, Some(conn), "")
       ELSE /\ last_pool_call' = PoolCall("acquire", FALSE, None, "Pool exhausted")
            /\ UNCHANGED <<connections, held>>
    /\ PoolFrame

\* ConnectionPool::release of a Connection that acquire handed out
Release(id) ==
    /\ IsSome(max_size)
    /\ pool_calls < MaxPoolCalls
    /\ pool_calls' = pool_calls + 1
    /\ id \in DOMAIN held
    /\ held' = Unhold(held, id)
    /\ connections' = IF id \in DOMAIN connections
                      THEN [connections EXCEPT ![id].initialized = FALSE,
                                               ![id].last_used = now]
                      ELSE connections
    /\ last_pool_call' = PoolCall("release", id \in DOMAIN connections, None, id)
    /\ PoolFrame

\* ConnectionPool::available_connections
available_connections == Unwrap(max_size) - Cardinality(DOMAIN connections)

\* ConnectionPool::cleanup_stale_connections
CleanupStaleConnections ==
    /\ IsSome(max_size)
    /\ pool_calls < MaxPoolCalls
    /\ pool_calls' = pool_calls + 1
    /\ connections' = [id \in {i \in DOMAIN connections :
                                  now - connections[i].last_used < StaleThresholdMs}
                         |-> connections[id]]
    /\ last_pool_call' = PoolCall("cleanup_stale_connections", TRUE, None, "")
    /\ UNCHANGED held
    /\ PoolFrame

\* time passes between two calls on the pool
PoolTick ==
    /\ IsSome(max_size)
    /\ now + PoolTickMs <= PoolMaxTime
    /\ now' = now + PoolTickMs
    /\ UNCHANGED <<active_tab, tab_health, tab_registered_at, tab_clock, last_tab_call>>
    /\ UNCHANGED <<lockVars, registryVars, portVars, clientVars, poolVars, opVars>>

NextPool ==
    \/ \E n \in 1..MaxPoolSize : NewPool(n)
    \/ Acquire
    \/ \E id \in DOMAIN held : Release(id)
    \/ CleanupStaleConnections
    \/ PoolTick



(***************************************************************************)
(* TabMessage (tab_coordinator_shared_worker/src/lib.rs:8-39)              *)
(***************************************************************************)
Register(tab_id) == [type |-> "Register", tab_id |-> tab_id]

CheckLeader(tab_id) == [type |-> "CheckLeader", tab_id |-> tab_id]

LeaderResponse(is_leader) == [type |-> "LeaderResponse", is_leader |-> is_leader]

QueryLeader(from_tab_id) == [type |-> "QueryLeader", from_tab_id |-> from_tab_id]

LeaderDataResponse(data, from_tab_id) ==
    [type |-> "LeaderDataResponse", data |-> data, from_tab_id |-> from_tab_id]

Disconnect(tab_id) == [type |-> "Disconnect", tab_id |-> tab_id]

ExecuteQuery(sql, from_tab_id) ==
    [type |-> "ExecuteQuery", sql |-> sql, from_tab_id |-> from_tab_id]

QueryResponse(results, from_tab_id, error) ==
    [type |-> "QueryResponse", results |-> results, from_tab_id |-> from_tab_id,
     error |-> error]

(***************************************************************************)
(* TabState                                                                *)
(***************************************************************************)
Contains(q, x) == \E i \in DOMAIN q : q[i] = x

\* VecDeque::retain(|id| id != tab_id)
Retain(q, tab_id) ==
    LET Keep(id) == id # tab_id IN SelectSeq(q, Keep)

InitRegistry ==
    /\ tabs = <<>>
    /\ ports = <<>>
    /\ registered_at = <<>>
    /\ reg_clock = 0
    /\ reregistered = 0

\* a leader taken from the back of the deque
get_leader_Back == IF tabs = <<>> THEN None ELSE Some(tabs[Len(tabs)])

\* TabState::get_leader: self.tabs.front()
get_leader == IF tabs = <<>> THEN None ELSE Some(Head(tabs))

\* a registration that puts the new id at the front of the deque
register_tab_PushFront(tab_id, port) ==
    /\ IF ~Contains(tabs, tab_id)
       THEN /\ tabs' = <<tab_id>> \o tabs
            /\ reg_clock' = reg_clock + 1
            /\ registered_at' = (tab_id :> (reg_clock + 1)) @@ registered_at
            /\ UNCHANGED reregistered
       ELSE /\ reregistered' = reregistered + 1
            /\ UNCHANGED <<tabs, reg_clock, registered_at>>
    /\ ports' = (tab_id :> port) @@ ports

\* a registration without the contains() test: the id is pushed again
register_tab_Unchecked(tab_id, port) ==
    /\ tabs' = Append(tabs, tab_id)
    /\ reg_clock' = reg_clock + 1
    /\ registered_at' = (tab_id :> (reg_clock + 1)) @@ registered_at
    /\ reregistered' = IF Contains(tabs, tab_id) THEN reregistered + 1 ELSE reregistered
    /\ ports' = (tab_id :> port) @@ ports

\* a registration that moves an id that registers again to the back
register_tab_Requeue(tab_id, port) ==
    /\ tabs' = Append(Retain(tabs, tab_id), tab_id)
    /\ reg_clock' = reg_clock + 1
    /\ registered_at' = (tab_id :> (reg_clock + 1)) @@ registered_at
    /\ reregistered' = IF Contains(tabs, tab_id) THEN reregistered + 1 ELSE reregistered
    /\ ports' = (tab_id :> port) @@ ports

\* TabState::register_tab
register_tab(tab_id, port) ==
    /\ IF ~Contains(tabs, tab_id)
       THEN /\ tabs' = Append(tabs, tab_id)
            /\ reg_clock' = reg_clock + 1
            /\ registered_at' = (tab_id :> (reg_clock + 1)) @@ registered_at
            /\ UNCHANGED reregistered
       ELSE /\ reregistered' = reregistered + 1
            /\ UNCHANGED <<tabs, reg_clock, registered_at>>
    /\ ports' = (tab_id :> port) @@ ports

\* TabState::remove_tab
remove_tab(tab_id) ==
    /\ tabs' = Retain(tabs, tab_id)
    /\ ports' = [id \in DOMAIN ports \ {tab_id} |-> ports[id]]
    /\ registered_at' = [id \in DOMAIN registered_at \ {tab_id} |-> registered_at[id]]
    /\ UNCHANGED <<reg_clock, reregistered>>

(***************************************************************************)
(* The message ports.  A port is named after the participant that owns it. *)
(***************************************************************************)
InitPorts ==
    /\ to_broker = [p \in Tabs |-> <<>>]
    /\ to_tab = [p \in Tabs |-> <<>>]

\* MessagePort::post_message from the broker to the port `port`; a message
\* posted to the port of a page that is gone is never delivered
PostToTab(chan, port, msg) ==
    IF client[port].stage = "closed" THEN chan
    ELSE [chan EXCEPT ![port] = Append(@, msg)]

(***************************************************************************)
(* handle_message(msg, port): one arm per message type.  `chan` is to_tab  *)
(* as the caller left it (with the handled message already taken off       *)
(* to_broker by the caller).                                               *)
(***************************************************************************)
HandleRegister(msg, port) ==
    /\ register_tab(msg.tab_id, port)
    /\ UNCHANGED to_tab

\* a CheckLeader arm that answers true to every registered tab
HandleCheckLeader_AnyRegistered(msg, port) ==
    /\ to_tab' = PostToTab(to_tab, port, LeaderResponse(Contains(tabs, msg.tab_id)))
    /\ UNCHANGED registryVars

\* a CheckLeader arm with unwrap_or(true): true when there is no leader
HandleCheckLeader_NoLeaderTrue(msg, port) ==
    /\ LET is_leader == IF IsSome(get_leader)
                        THEN Unwrap(get_leader) = msg.tab_id
                        ELSE TRUE
       IN to_tab' = PostToTab(to_tab, port, LeaderResponse(is_leader))
    /\ UNCHANGED registryVars

\* handle_message, the CheckLeader arm
HandleCheckLeader(msg, port) ==
    /\ LET is_leader == IF IsSome(get_leader)
                        THEN Unwrap(get_leader) = msg.tab_id
                        ELSE FALSE
       IN to_tab' = PostToTab(to_tab, port, LeaderResponse(is_leader))
    /\ UNCHANGED registryVars

HandleQueryLeader(msg, port) ==
    /\ IF IsSome(get_leader) /\ Unwrap(get_leader) \in DOMAIN ports
       THEN to_tab' = PostToTab(to_tab, ports[Unwrap(get_leader)],
                                QueryLeader(msg.from_tab_id))
       ELSE UNCHANGED to_tab
    /\ UNCHANGED registryVars

HandleLeaderDataResponse(msg, port) ==
    /\ IF msg.from_tab_id \in DOMAIN ports
       THEN to_tab' = PostToTab(to_tab, ports[msg.from_tab_id],
                                LeaderDataResponse(msg.data, msg.from_tab_id))
       ELSE UNCHANGED to_tab
    /\ UNCHANGED registryVars

\* a Disconnect arm that also tells the next leader that it now leads
HandleDisconnect_Notify(msg, port) ==
    /\ remove_tab(msg.tab_id)
    /\ LET rest == Retain(tabs, msg.tab_id) IN
       IF /\ IsSome(get_leader) /\ Unwrap(get_leader) = msg.tab_id
          /\ rest # <<>> /\ Head(rest) \in DOMAIN ports
       THEN to_tab' = PostToTab(to_tab, ports[Head(rest)], LeaderResponse(TRUE))
       ELSE UNCHANGED to_tab

HandleDisconnect(msg, port) ==
    /\ remove_tab(msg.tab_id)
    /\ UNCHANGED to_tab

HandleExecuteQuery(msg, port) ==
    /\ IF IsSome(get_leader) /\ Unwrap(get_leader) \in DOMAIN ports
       THEN to_tab' = PostToTab(to_tab, ports[Unwrap(get_leader)],
                                ExecuteQuery(msg.sql, msg.from_tab_id))
       ELSE UNCHANGED to_tab
    /\ UNCHANGED registryVars

\* a QueryResponse arm that answers on the port the message came from
HandleQueryResponse_ToLeader(msg, port) ==
    /\ IF IsSome(get_leader) /\ Unwrap(get_leader) \in DOMAIN ports
       THEN to_tab' = PostToTab(to_tab, ports[Unwrap(get_leader)], msg)
       ELSE UNCHANGED to_tab
    /\ UNCHANGED registryVars

\* a broker that returns to its sender a response it cannot deliver
HandleQueryResponse_Return(msg, port) ==
    /\ to_tab' = PostToTab(to_tab, IF msg.from_tab_id \in DOMAIN ports
                                   THEN ports[msg.from_tab_id] ELSE port, msg)
    /\ UNCHANGED registryVars

HandleQueryResponse(msg, port) ==
    /\ IF msg.from_tab_id \in DOMAIN ports
       THEN to_tab' = PostToTab(to_tab, ports[msg.from_tab_id], msg)
       ELSE UNCHANGED to_tab
    /\ UNCHANGED registryVars

\* the catch-all arm: a LeaderResponse sent to the broker is ignored
HandleOther(msg, port) ==
    UNCHANGED <<registryVars, to_tab>>

handle_message(msg, port) ==
    CASE msg.type = "Register" -> HandleRegister(msg, port)
      [] msg.type = "CheckLeader" -> HandleCheckLeader(msg, port)
      [] msg.type = "QueryLeader" -> HandleQueryLeader(msg, port)
      [] msg.type = "LeaderDataResponse" -> HandleLeaderDataResponse(msg, port)
      [] msg.type = "Disconnect" -> HandleDisconnect(msg, port)
      [] msg.type = "ExecuteQuery" -> HandleExecuteQuery(msg, port)
      [] msg.type = "QueryResponse" -> HandleQueryResponse(msg, port)
      [] OTHER -> HandleOther(msg, port)

(***************************************************************************)
(* SpecRegistry: the broker alone, fed any sequence of Register and        *)
(* Disconnect messages for any id on any port.                             *)
(***************************************************************************)
RegisterArrives(tab_id, port) ==
    /\ IF Contains(tabs, tab_id) THEN reregistered < MaxReregistrations
                                ELSE reg_clock < MaxRegistrations
    /\ handle_message(Register(tab_id), port)
    /\ UNCHANGED <<coordVars, to_broker, clientVars>>

DisconnectArrives(tab_id, port) ==
    /\ handle_message(Disconnect(tab_id), port)
    /\ UNCHANGED <<coordVars, to_broker, clientVars>>

NextRegistry ==
    \/ \E id \in Tabs, port \in Tabs : RegisterArrives(id, port)
    \/ \E id \in Tabs, port \in Tabs : DisconnectArrives(id, port)


(***************************************************************************)
(* The participant: TabManager (tab_coordinator/src/lib.rs) and            *)
(* BrowserSQLite (browser_sqlite/src/lib.rs).                              *)
(*                                                                         *)
(* Every asynchronous call is a task that runs until its next await.  A    *)
(* oneshot channel is the pair of the slot that holds its Sender and the   *)
(* task that awaits its Receiver: the slot holds the number of that task.  *)
(* Storing a new Sender in a slot drops the old one, and the task awaiting *)
(* the old Receiver wakes up with Canceled.                                *)
(***************************************************************************)
NoSql == <<>>

Result(ok, flag, data, rows, error) ==
    [ok |-> ok, flag |-> flag, data |-> data, rows |-> rows, error |-> error]

OkUnit == Result(TRUE, FALSE, "", <<>>, "")

OkBool(b) == Result(TRUE, b, "", <<>>, "")

OkData(d) == Result(TRUE, FALSE, d, <<>>, "")

OkRows(r) == Result(TRUE, FALSE, "", r, "")

Err(e) == Result(FALSE, FALSE, "", <<>>, e)

\* bool::to_string
bool_to_string(b) == IF b THEN "true" ELSE "false"

Task(kind, pc, sql, requester) ==
    [kind |-> kind, pc |-> pc, sql |-> sql, requester |-> requester, result |-> None,
     executor |-> ""]

Finished(task, res) == [task EXCEPT !.pc = "done", !.result = Some(res)]

Panicked(task) == [task EXCEPT !.pc = "panicked"]

InitClient ==
    /\ client = [p \in Tabs |->
                   [tab_id |-> p,
                    stage |-> "absent",
                    disconnect_posted |-> FALSE,
                    tasks |-> <<>>,
                    leader_data |-> "",
                    response_sender |-> None,
                    query_response_sender |-> None,
                    worker_onmessage |-> None,
                    worker_inbox |-> <<>>,
                    out |-> <<>>]]
    /\ calls = 0

\* self.port.post_message(msg)
Post(c, msg) == [c EXCEPT !.out = Append(@, msg)]

\* the Receiver of task t yields Err(Canceled): check_leader and route_query
\* map it to "Channel closed"; query_leader and the ExecuteQuery handler
\* unwrap() it, which panics and ends the task
Canceled(task) ==
    IF task.kind \in {"query_leader", "handler"}
    THEN Panicked(task)
    ELSE Finished(task, Err("Channel closed"))

DropSender(c, slot) ==
    IF slot = None THEN c ELSE [c EXCEPT !.tasks[Unwrap(slot)] = Canceled(@)]

\* *response_sender.borrow_mut() = Some(sender)
StoreResponseSender(c, t) ==
    [DropSender(c, c.response_sender) EXCEPT !.response_sender = Some(t)]

\* *query_sender = Some(sender)
StoreQuerySender(c, t) ==
    [DropSender(c, c.query_response_sender) EXCEPT !.query_response_sender = Some(t)]

\* worker.set_onmessage(closure resolving the promise of task t);
\* worker.post_message(text)
PostToWorker(c, t, is_query) ==
    [c EXCEPT !.worker_onmessage = Some(t),
              !.worker_inbox = Append(@, [query |-> is_query, sql |-> c.tasks[t].sql,
                                          task |-> t]),
              !.tasks[t].pc = "exec"]

\* TabManager::route_query up to its await
route_query(c, t) ==
    LET c1 == StoreQuerySender(c, t)
        c2 == Post(c1, ExecuteQuery(c1.tasks[t].sql, c1.tab_id))
    IN [c2 EXCEPT !.tasks[t].pc = "route"]

\* query_response_sender.borrow_mut().take() and sender.send(res): the task
\* awaiting in route_query goes on and returns res
SendQueryResult(c, res) ==
    IF c.query_response_sender = None THEN c
    ELSE [c EXCEPT !.query_response_sender = None,
                   !.tasks[Unwrap(c.query_response_sender)] = Finished(@, res)]

\* BrowserSQLite::execute after check_leader returned an error-free answer
\* that is always true: the sql goes to the worker whatever the answer
ExecuteChecked_Unchecked(c, t, is_leader) ==
    PostToWorker(c, t, FALSE)

\* BrowserSQLite::execute after `check_leader().await?`
ExecuteChecked(c, t, is_leader) ==
    IF ~is_leader
    THEN [c EXCEPT !.tasks[t] =
              Finished(@, Err("Only leader can execute write operations"))]
    ELSE PostToWorker(c, t, FALSE)

\* a query that is routed through the broker whatever the answer
QueryChecked_AlwaysRoute(c, t, is_leader) ==
    route_query(c, t)

\* BrowserSQLite::query after `check_leader().await?`
QueryChecked(c, t, is_leader) ==
    IF is_leader THEN PostToWorker(c, t, TRUE) ELSE route_query(c, t)

\* a handler that runs the query on its worker without looking at the answer
HandlerChecked_Unchecked(c, t, is_leader) ==
    PostToWorker(c, t, TRUE)

\* the ExecuteQuery handler after its leader re-check
HandlerChecked(c, t, is_leader) ==
    LET task == c.tasks[t] IN
    IF ~is_leader
    THEN LET c1 == Post(c, QueryResponse(<<>>, task.requester,
                             Some("Only leader can execute queries")))
             c2 == IF c1.tab_id = task.requester
                   THEN SendQueryResult(c1, Err("Only leader can execute queries"))
                   ELSE c1
         IN [c2 EXCEPT !.tasks[t].pc = "done"]
    ELSE PostToWorker(c, t, TRUE)

\* the task t goes on after `receiver.await` gave it the string `answer`
AfterLeaderAnswer(c, t, answer) ==
    LET task == c.tasks[t]
        is_leader == (answer = "true")
    IN CASE task.kind = "check_leader" ->
              [c EXCEPT !.tasks[t] = Finished(@, OkBool(is_leader))]
         [] task.kind = "query_leader" ->
              [c EXCEPT !.tasks[t] = Finished(@, OkData(answer))]
         [] task.kind = "execute" -> ExecuteChecked(c, t, is_leader)
         [] task.kind = "query" -> QueryChecked(c, t, is_leader)
         [] task.kind = "handler" -> HandlerChecked(c, t, is_leader)
         [] OTHER -> c

\* the LeaderResponse arm of the port's message handler
OnLeaderResponse(c, msg) ==
    IF c.response_sender = None THEN c
    ELSE AfterLeaderAnswer([c EXCEPT !.response_sender = None],
                           Unwrap(c.response_sender), bool_to_string(msg.is_leader))

\* the ExecuteQuery arm: spawn_local of the re-check and the execution
OnExecuteQuery(c, msg) ==
    LET t == Len(c.tasks) + 1
        c1 == [c EXCEPT !.tasks = Append(@, Task("handler", "check", msg.sql,
                                                 msg.from_tab_id))]
    IN Post(StoreResponseSender(c1, t), CheckLeader(c1.tab_id))

\* the QueryLeader arm: the page answers with its leader_data
OnQueryLeader(c, msg) ==
    Post(c, LeaderDataResponse(c.leader_data, msg.from_tab_id))

\* the QueryResponse arm
OnQueryResponse(c, msg) ==
    IF c.tab_id = msg.from_tab_id
    THEN SendQueryResult(c, IF IsSome(msg.error) THEN Err(Unwrap(msg.error))
                            ELSE OkRows(msg.results))
    ELSE c

\* the port's message handler of TabManager::new
OnMessage(c, msg) ==
    CASE msg.type = "LeaderResponse" -> OnLeaderResponse(c, msg)
      [] msg.type = "QueryLeader" -> OnQueryLeader(c, msg)
      [] msg.type = "ExecuteQuery" -> OnExecuteQuery(c, msg)
      [] msg.type = "QueryResponse" -> OnQueryResponse(c, msg)
      [] OTHER -> c

(***************************************************************************)
(* The sqlite worker (sqlite_wrapper/src/lib.rs) and what becomes of its   *)
(* reply.  A JavaScript value is an array of rows, a string or null.       *)
(***************************************************************************)
JsArray(rows) == [js |-> "array", rows |-> rows, s |-> ""]

JsString(str) == [js |-> "string", rows |-> <<>>, s |-> str]

JsNull == [js |-> "null", rows |-> <<>>, s |-> ""]

\* Database::query: Err(JsValue::from_str("Failed to prepare statement"))
PrepareError == "Failed to prepare statement"

\* the characters of a string, as the iteration of a JavaScript string
\* yields them
Chars(str) ==
    IF str = PrepareError
    THEN <<"F", "a", "i", "l", "e", "d", " ", "t", "o", " ", "p", "r", "e", "p",
           "a", "r", "e", " ", "s", "t", "a", "t", "e", "m", "e", "n", "t">>
    ELSE <<>>

\* the worker's onmessage: the Result of Database::query or ::execute for
\* the message `req`; the rows of a query stand for its sql
WorkerResult(req, outcome) ==
    IF outcome = "failed" THEN [ok |-> FALSE, val |-> JsString(PrepareError)]
    ELSE [ok |-> TRUE, val |-> IF req.query THEN JsArray(<<req.sql>>) ELSE JsNull]

\* match result { Ok(val) => post_message(&val), Err(e) => post_message(&e) }:
\* the data of the message event the page receives
WorkerPosted(result) == result.val

\* js_sys::Array::from(&result) and the loops that parse rows and cells
ParseRows(data) ==
    CASE data.js = "array" -> data.rows
      [] data.js = "string" -> [i \in DOMAIN Chars(data.s) |-> <<Chars(data.s)[i]>>]
      [] OTHER -> <<>>

\* the promise of task t is resolved with `data`, the worker's message
AfterWorkerReply(c, t, data) ==
    LET task == c.tasks[t] IN
    CASE task.kind = "execute" -> [c EXCEPT !.tasks[t] = Finished(@, OkUnit)]
      [] task.kind = "query" ->
           [c EXCEPT !.tasks[t] = Finished(@, IF data.js = "array"
                                              THEN OkRows(data.rows)
                                              ELSE OkData(data.s))]
      [] task.kind = "handler" ->
           LET rows == ParseRows(data)
               c1 == Post(c, QueryResponse(rows, task.requester, None))
               c2 == IF c1.tab_id = task.requester
                     THEN SendQueryResult(c1, OkRows(rows))
                     ELSE c1
           IN [c2 EXCEPT !.tasks[t].pc = "done"]
      [] OTHER -> c

\* the messages a step of participant p posted go out on its port
Commit(p, c) ==
    /\ client' = [client EXCEPT ![p] = [c EXCEPT !.out = <<>>]]
    /\ to_broker' = [to_broker EXCEPT ![p] = @ \o c.out]

(***************************************************************************)
(* Actions of a participant                                                *)
(***************************************************************************)
\* TabManager::new: posts Register
NewTabManager(p) ==
    /\ client[p].stage = "absent"
    /\ \A q \in Tabs : Index(q) < Index(p) => client[q].stage # "absent"
    /\ Commit(p, Post([client[p] EXCEPT !.stage = "open"], Register(p)))
    /\ UNCHANGED <<coordVars, registryVars, to_tab, calls>>

\* a call that starts with TabManager::check_leader: BrowserSQLite::execute,
\* BrowserSQLite::query and check_leader itself
StartCheckLeader(p, kind) ==
    /\ client[p].stage = "open"
    /\ calls < MaxCalls
    /\ calls' = calls + 1
    /\ LET c == client[p]
           t == Len(c.tasks) + 1
           sql == IF kind = "check_leader" THEN NoSql ELSE <<p, t>>
           c1 == [c EXCEPT !.tasks = Append(@, Task(kind, "check", sql, p))]
       IN Commit(p, Post(StoreResponseSender(c1, t), CheckLeader(c1.tab_id)))
    /\ UNCHANGED <<coordVars, registryVars, to_tab>>

\* TabManager::query_leader
StartQueryLeader(p) ==
    /\ client[p].stage = "open"
    /\ calls < MaxCalls
    /\ calls' = calls + 1
    /\ LET c == client[p]
           t == Len(c.tasks) + 1
           c1 == [c EXCEPT !.tasks = Append(@, Task("query_leader", "check", NoSql, p))]
       IN Commit(p, Post(StoreResponseSender(c1, t), QueryLeader(c1.tab_id)))
    /\ UNCHANGED <<coordVars, registryVars, to_tab>>

\* TabManager::save_data; the data a page saves stands for the page
SaveData(p) ==
    /\ client[p].stage = "open"
    /\ calls < MaxCalls
    /\ calls' = calls + 1
    /\ client' = [client EXCEPT ![p].leader_data = "data of " \o p]
    /\ UNCHANGED <<coordVars, registryVars, portVars>>

\* TabManager::route_query called on its own
StartRouteQuery(p) ==
    /\ client[p].stage = "open"
    /\ calls < MaxCalls
    /\ calls' = calls + 1
    /\ LET c == client[p]
           t == Len(c.tasks) + 1
           c1 == [c EXCEPT !.tasks = Append(@, Task("route_query", "route", <<p, t>>, p))]
       IN Commit(p, route_query(c1, t))
    /\ UNCHANGED <<coordVars, registryVars, to_tab>>

\* the port delivers the next message of the broker to the page
TabReceives(p) ==
    /\ client[p].stage = "open"
    /\ to_tab[p] # <<>>
    /\ to_tab' = [to_tab EXCEPT ![p] = Tail(@)]
    /\ Commit(p, OnMessage(client[p], Head(to_tab[p])))
    /\ UNCHANGED <<coordVars, registryVars, calls>>

\* the Database Executor (the sqlite_wrapper worker) answers its next message;
\* the answer goes to the closure that is the worker's onmessage now, and a
\* Closure::once runs once
WorkerReplies(p, outcome) ==
    /\ client[p].stage = "open"
    /\ client[p].worker_inbox # <<>>
    /\ LET c == client[p]
           req == Head(c.worker_inbox)
           data == WorkerPosted(WorkerResult(req, outcome))
           c1 == [c EXCEPT !.worker_inbox = Tail(@), !.worker_onmessage = None]
       IN Commit(p, IF c.worker_onmessage = None THEN c1
                    ELSE LET t == Unwrap(c.worker_onmessage) IN
                         AfterWorkerReply([c1 EXCEPT !.tasks[t].executor = outcome],
                                          t, data))
    /\ UNCHANGED <<coordVars, registryVars, to_tab, calls>>

\* window.onbeforeunload: posts Disconnect
BeforeUnload(p) ==
    /\ client[p].stage = "open"
    /\ ~client[p].disconnect_posted
    /\ Cardinality({q \in Tabs : client[q].disconnect_posted}) < MaxUnloads
    /\ Commit(p, Post([client[p] EXCEPT !.disconnect_posted = TRUE], Disconnect(p)))
    /\ UNCHANGED <<coordVars, registryVars, to_tab, calls>>

\* the page is unloaded: its tasks and its end of the port are gone
PageUnloads(p) ==
    /\ client[p].stage = "open"
    /\ client[p].disconnect_posted
    /\ client' = [client EXCEPT ![p].stage = "closed", ![p].worker_inbox = <<>>]
    /\ to_tab' = [to_tab EXCEPT ![p] = <<>>]
    /\ UNCHANGED <<coordVars, registryVars, to_broker, calls>>

\* the shared worker handles the next message of port p
BrokerReceives(p) ==
    /\ to_broker[p] # <<>>
    /\ Head(to_broker[p]).type = "Register" => reg_clock = Index(p) - 1
    /\ to_broker' = [to_broker EXCEPT ![p] = Tail(@)]
    /\ handle_message(Head(to_broker[p]), p)
    /\ UNCHANGED <<coordVars, clientVars>>

NextTabs ==
    \/ \E p \in Tabs : NewTabManager(p)
    \/ \E p \in Tabs, kind \in {"check_leader", "execute", "query"} :
          StartCheckLeader(p, kind)
    \/ \E p \in Tabs : StartQueryLeader(p)
    \/ \E p \in Tabs : StartRouteQuery(p)
    \/ \E p \in Tabs : SaveData(p)
    \/ \E p \in Tabs : TabReceives(p)
    \/ \E p \in Tabs, outcome \in {"ok", "failed"} : WorkerReplies(p, outcome)
    \/ \E p \in Tabs : BeforeUnload(p)
    \/ \E p \in Tabs : PageUnloads(p)
    \/ \E p \in Tabs : BrokerReceives(p)

Init == InitCoordinator /\ InitPool /\ InitRegistry /\ InitPorts /\ InitClient

SpecCoordinator == Init /\ [][NextCoordinator]_vars

SpecMigration == Init /\ [][NextMigration]_vars

SpecPool == Init /\ [][NextPool]_vars

\* the tabs, the worker and the statement of the operations that are logged
OperationTabs == {"tab1", "tab2"}

OperationWorkers == {"tab1"}

OperationSql == {"SELECT * FROM users"}

\* the log of operations next to the calls about tabs, access and transactions
NextOperations ==
    \/ \E t \in OperationTabs, sql \in OperationSql : QueueOperation(t, sql)
    \/ \E t \in OperationTabs : RegisterTab(t)
    \/ \E t \in OperationTabs : SetActiveTab(t)
    \/ \E t \in OperationTabs : NotifyTabClosed(t)
    \/ \E t \in OperationTabs : SimulateTabTimeout(t)
    \/ \E w \in OperationWorkers, o \in {"write", "read"} : RequestAccess(w, o)
    \/ \E t \in OperationWorkers : BeginTransaction(t)
    \/ \E t \in OperationWorkers : CommitTransaction(t)

SpecOperations == Init /\ [][NextOperations]_vars

SpecRegistry == Init /\ [][NextRegistry]_vars

\* the ids and ports of the messages that reach the broker
BrokerTabs == {"tab1", "tab2"}

\* the messages other than Register and Disconnect that name the tab `id`
BrokerMessages(id) ==
    {CheckLeader(id), QueryLeader(id), ExecuteQuery("SELECT 1", id),
     QueryResponse(<<>>, id, None), LeaderDataResponse("", id)}

\* the number of messages in the ports towards the pages
Forwarded(chan) ==
    LET RECURSIVE Sum(_)
        Sum(S) == IF S = {} THEN 0
                  ELSE LET p == CHOOSE q \in S : TRUE IN Len(chan[p]) + Sum(S \ {p})
    IN Sum(DOMAIN chan)

\* a message that is neither Register nor Disconnect arrives on `port`
MessageArrives(msg, port) ==
    /\ Forwarded(to_tab) < MaxForwarded
    /\ handle_message(msg, port)
    /\ UNCHANGED <<coordVars, to_broker, clientVars>>

\* the shared worker alone, with every type of message arriving on its ports
NextBroker ==
    \/ \E id \in BrokerTabs, port \in BrokerTabs : RegisterArrives(id, port)
    \/ \E id \in BrokerTabs, port \in BrokerTabs : DisconnectArrives(id, port)
    \/ \E id \in BrokerTabs, port \in BrokerTabs :
          \E msg \in BrokerMessages(id) : MessageArrives(msg, port)

SpecBroker == Init /\ [][NextBroker]_vars

SpecTabs == Init /\ [][NextTabs]_vars

\* The ports deliver every posted message while the receiving page is open,
\* the shared worker handles every message it is sent, and the sqlite worker
\* answers every message it is sent.  Calls, beforeunload and the unloading
\* of a page are up to the user.
FairSpecTabs ==
    /\ Init
    /\ [][NextTabs]_vars
    /\ \A p \in Tabs : /\ WF_vars(TabReceives(p))
                       /\ WF_vars(BrokerReceives(p))
                       /\ WF_vars(\E outcome \in {"ok", "failed"} : WorkerReplies(p, outcome))

(***************************************************************************)
(* Claims about MockCoordinator, checked under SpecCoordinator.            *)
(***************************************************************************)

\* C1: at most one worker is active_writer, and active_writer is set only
\* while active_readers is empty: a writer and readers never hold access
\* at the same time.
C1_WriterExcludesReaders ==
    /\ \/ active_writer = None
       \/ \E w \in Workers : active_writer = Some(w)
    /\ IsSome(active_writer) => active_readers = {}

\* C1 witness: a queued writer was granted by get_next_queued_response and a
\* read requested while it holds the lock was denied.
C1_Witness ==
    /\ IsSome(active_writer)
    /\ grant_log # <<>>
    /\ last_call.name = "request_access" /\ last_call.operation = "read"
    /\ IsSome(response) /\ ~Unwrap(response).granted
    /\ active_readers = {}

\* C5: FIFO fairness of the write queue: the requests granted by
\* get_next_queued_response are granted in the order in which request_access
\* enqueued them; when a request is granted every request enqueued before it
\* was granted by an earlier call.
C5_FifoGrants ==
    \A i \in DOMAIN grant_log : grant_log[i] = i

\* C5 witness: two queued writers were granted, one after the other, with
\* complete_operation calls in between.
C5_Witness ==
    /\ Len(grant_log) >= 2
    /\ last_call.name = "complete_operation"
    /\ write_queue # <<>>

\* C6: while a transaction is active every request_access(id, "write")
\* returns granted = false, for every id and every lock state.
C6_WriteDeniedInTransaction ==
    (/\ last_call.name = "request_access"
     /\ last_call.operation = "write"
     /\ IsSome(current_transaction))
    => (IsSome(response) /\ ~Unwrap(response).granted)

\* C6 witness: the transaction owner itself asked to write while the lock was
\* completely free, and was refused.
C6_Witness ==
    /\ IsSome(current_transaction)
    /\ last_call = Call("request_access", Unwrap(current_transaction), "write")
    /\ active_writer = None /\ active_readers = {} /\ write_queue = <<>>
    /\ IsSome(response) /\ ~Unwrap(response).granted

\* C10: with no transaction active, request_access(id, "write") is granted
\* exactly when active_writer is None and active_readers is empty, and then id
\* becomes active_writer; otherwise the request is appended at the tail of the
\* write queue and queue_position is the index of the new entry.
C10_WriteGrantOrEnqueue ==
    [][\A w \in Workers :
         (/\ last_call' = Call("request_access", w, "write")
          /\ ~IsSome(current_transaction))
         => /\ IsSome(response')
            /\ Unwrap(response').granted
                 <=> (active_writer = None /\ active_readers = {})
            /\ Unwrap(response').granted
                 => /\ active_writer' = Some(w)
                    /\ write_queue' = write_queue
                    /\ Unwrap(response').queue_position = None
            /\ ~Unwrap(response').granted
                 => /\ active_writer' = active_writer
                    /\ Len(write_queue') = Len(write_queue) + 1
                    /\ SubSeq(write_queue', 1, Len(write_queue)) = write_queue
                    /\ write_queue'[Len(write_queue')].worker_id = w
                    /\ write_queue'[Len(write_queue')].operation = "write"
                    /\ Unwrap(response').queue_position = Some(Len(write_queue') - 1)
                    /\ Unwrap(response').queue_position = Some(Len(write_queue))
      ]_vars

\* C10 witness: a second writer was queued behind a first queued writer and
\* was told position 1.
C10_Witness ==
    /\ last_call.name = "request_access" /\ last_call.operation = "write"
    /\ ~IsSome(current_transaction)
    /\ IsSome(response) /\ ~Unwrap(response).granted
    /\ Unwrap(response).queue_position = Some(1)
    /\ Len(write_queue) = 2

(***************************************************************************)
(* Claims about the broker's registry, checked under SpecRegistry.         *)
(***************************************************************************)

\* C3: the leader is at most one id, it is the earliest-registered id still
\* present in the registry, and it is undefined only when the registry is
\* empty.
C3_LeaderIsEarliestRegistered ==
    /\ \/ get_leader = None
       \/ \E id \in Tabs : get_leader = Some(id)
    /\ get_leader = None <=> DOMAIN ports = {}
    /\ IsSome(get_leader) =>
         /\ Unwrap(get_leader) \in DOMAIN ports
         /\ Contains(tabs, Unwrap(get_leader))
         /\ \A id \in DOMAIN ports :
               /\ id \in DOMAIN registered_at
               /\ registered_at[Unwrap(get_leader)] <= registered_at[id]

\* C3 witness: tab1 registered, then tab2, then tab1 was removed: the leader
\* is tab2.
C3_Witness ==
    /\ reg_clock = 2
    /\ DOMAIN registered_at = {"tab2"}
    /\ registered_at["tab2"] = 2
    /\ get_leader = Some("tab2")

(***************************************************************************)
(* Claims about the participants and the broker, checked under SpecTabs    *)
(* and FairSpecTabs.                                                       *)
(***************************************************************************)
Executing(p) == client[p].worker_inbox # <<>>

TasksOf(p) == DOMAIN client[p].tasks

\* C2: every invocation of the Database Executor is made by a participant in
\* the step in which it receives LeaderResponse{is_leader: true}, a
\* registered participant with an executor call in progress is the broker's
\* leader, and so no two registered participants have an executor call in
\* progress at the same time.
C2_LeaderIsSoleExecutor ==
    /\ [](\A p \in Tabs :
            (Executing(p) /\ Contains(tabs, p)) => get_leader = Some(p))
    /\ [](\A p, q \in Tabs :
            (/\ Executing(p) /\ Executing(q)
             /\ Contains(tabs, p) /\ Contains(tabs, q)) => p = q)
    /\ [][\A p \in Tabs :
            Len(client'[p].worker_inbox) > Len(client[p].worker_inbox)
            => /\ to_tab[p] # <<>>
               /\ Head(to_tab[p]) = LeaderResponse(TRUE)
               /\ to_tab'[p] = Tail(to_tab[p])]_vars

\* C2 witness: the first leader has an executor call in progress, has posted
\* Disconnect and was removed, and the next leader has an executor call in
\* progress too.
C2_Witness ==
    /\ Executing("tab1") /\ ~Contains(tabs, "tab1")
    /\ Executing("tab2") /\ get_leader = Some("tab2")

\* C4: a QueryResponse is forwarded by the broker only to the port of the
\* participant named in from_tab_id, the participant that issued the
\* ExecuteQuery; and a pending route_query of participant q is resolved only
\* by a QueryResponse with from_tab_id = q that q takes from its own port (or
\* by q's own ExecuteQuery handler when q is the leader and the requester, or
\* by the loss of its Sender to a later route_query of q).
RoutePending(p, t) == t \in TasksOf(p) /\ client[p].tasks[t].pc = "route"

C4_ResponseReachesRequester ==
    /\ [](\A q \in Tabs : \A i \in DOMAIN to_tab[q] :
            to_tab[q][i].type = "QueryResponse" => to_tab[q][i].from_tab_id = q)
    /\ [][\A q \in Tabs : \A t \in TasksOf(q) :
            (RoutePending(q, t) /\ client'[q].tasks[t].pc = "done")
            => \/ /\ to_tab[q] # <<>>
                  /\ Head(to_tab[q]).type = "QueryResponse"
                  /\ Head(to_tab[q]).from_tab_id = q
                  /\ to_tab'[q] = Tail(to_tab[q])
               \/ \E h \in TasksOf(q) :
                     /\ client[q].tasks[h].kind = "handler"
                     /\ client[q].tasks[h].requester = q
                     /\ client[q].tasks[h].pc # "done"
                     /\ client'[q].tasks[h].pc = "done"
               \/ /\ client'[q].tasks[t].result = Some(Err("Channel closed"))
                  /\ client'[q].query_response_sender # Some(t)
                  /\ IsSome(client'[q].query_response_sender)]_vars

\* C4 witness: two participants have a routed query in flight at a third one,
\* the leader: one has resolved with rows, the answer to the other is on its
\* way.
C4_Witness ==
    \E q1, q2 \in Tabs :
       /\ q1 # q2
       /\ get_leader \notin {Some(q1), Some(q2)}
       /\ \E t \in TasksOf(q1) :
             /\ client[q1].tasks[t].kind \in {"query", "route_query"}
             /\ client[q1].tasks[t].pc = "done"
             /\ Unwrap(client[q1].tasks[t].result).ok
             /\ Unwrap(client[q1].tasks[t].result).rows # <<>>
       /\ \E t \in TasksOf(q2) : client[q2].tasks[t].pc = "route"
       /\ \E i \in DOMAIN to_tab[q2] : to_tab[q2][i].type = "QueryResponse"

\* C7: a pending correlation token is never overwritten: no call loses its
\* Sender to a later call, so no call ends with "Channel closed" or with the
\* panic of an unwrap() on a cancelled Receiver.
C7_NoCallCancelled ==
    \A p \in Tabs : \A t \in TasksOf(p) :
       LET task == client[p].tasks[t] IN
       /\ task.pc # "panicked"
       /\ (task.pc = "done" /\ IsSome(task.result))
            => Unwrap(task.result).error # "Channel closed"

\* C8: under fair message delivery every route_query of a page that stays
\* open eventually resolves, with rows or with an error.
C8_RouteQueryResolves ==
    \A p \in Tabs : \A t \in 1..(2 * MaxCalls) :
       (RoutePending(p, t) /\ client[p].stage = "open")
          ~> (~RoutePending(p, t) \/ client[p].stage = "closed")

\* the broker handles the Disconnect of the leader while another participant
\* is registered
LeaderRemoved == Len(tabs) >= 2 /\ tabs' = Tail(tabs)

\* C9 as stated: when the broker handles the Disconnect of the leader and
\* another participant remains, it pushes LeaderResponse{is_leader: true} to
\* the new leader's port.
C9_BrokerPushesLeadership ==
    [][LeaderRemoved =>
         to_tab'[tabs[2]] = Append(to_tab[tabs[2]], LeaderResponse(TRUE))]_vars

\* C9 amended: when the broker handles the Disconnect of the leader and
\* another participant remains, the next-earliest registered participant is
\* the leader from then on but the broker posts nothing; the broker posts a
\* LeaderResponse only on the port on which it has just received a
\* CheckLeader.
C9_LeadershipIsPolled ==
    [][/\ LeaderRemoved => (to_tab' = to_tab /\ get_leader' = Some(tabs[2]))
       /\ \A p \in Tabs :
            (/\ Len(to_tab'[p]) > Len(to_tab[p])
             /\ to_tab'[p][Len(to_tab'[p])].type = "LeaderResponse")
            => /\ to_broker[p] # <<>>
               /\ Head(to_broker[p]).type = "CheckLeader"
               /\ to_broker'[p] = Tail(to_broker[p])]_vars

\* C9 witness: tab1 led and was removed while tab2 was registered; tab2 has
\* asked and holds the answer LeaderResponse{is_leader: true}.
C9_Witness ==
    /\ ~Contains(tabs, "tab1") /\ client["tab1"].disconnect_posted
    /\ to_broker["tab1"] = <<>>
    /\ get_leader = Some("tab2")
    /\ \E i \in DOMAIN to_tab["tab2"] : to_tab["tab2"][i] = LeaderResponse(TRUE)

(***************************************************************************)
(* C11: request_access(id, "read") is granted exactly when active_writer   *)
(* is None, whatever the readers already active, the queued writers and    *)
(* the transaction; a granted read adds id to active_readers; a denied     *)
(* read changes nothing, is not put on the write queue and returns no      *)
(* queue position.                                                         *)
(***************************************************************************)
C11_ReadGrantedIffNoWriter ==
    [][\A w \in Workers :
          last_call' = Call("request_access", w, "read") =>
             /\ response' = Some(AccessResponse(active_writer = None, w, "read", None))
             /\ active_readers' = IF active_writer = None
                                  THEN active_readers \cup {w}
                                  ELSE active_readers
             /\ write_queue' = write_queue
             /\ active_writer' = active_writer
             /\ ~poisoned']_vars

\* a read was granted beside another reader, with a writer queued and a
\* transaction active
C11_Witness ==
    /\ last_call.name = "request_access" /\ last_call.operation = "read"
    /\ IsSome(response) /\ Unwrap(response).granted
    /\ Cardinality(active_readers) >= 2
    /\ write_queue # <<>>
    /\ IsSome(current_transaction)

(***************************************************************************)
(* C12: get_next_queued_response grants the head of the write queue and    *)
(* makes it active_writer when the queue is non-empty and the lock has no  *)
(* writer and no reader; with an empty queue, or with a writer or a reader *)
(* active, it panics and returns no response.                              *)
(***************************************************************************)
C12_DrainGrantsHeadOrPanics ==
    [][last_call' = Call("get_next_queued_response", "", "") =>
          IF write_queue # <<>> /\ active_writer = None /\ active_readers = {}
          THEN /\ active_writer' = Some(Head(write_queue).worker_id)
               /\ response' = Some(AccessResponse(TRUE, Head(write_queue).worker_id,
                                                  Head(write_queue).operation, None))
               /\ write_queue' = Tail(write_queue)
               /\ ~poisoned'
          ELSE /\ poisoned'
               /\ response' = None
               /\ active_writer' = active_writer]_vars

\* the drain granted a queued write earlier, and a later drain panicked
\* while a writer was active and a request was still queued behind the one
\* it took
C12_Witness ==
    /\ last_call.name = "get_next_queued_response"
    /\ poisoned
    /\ grant_log # <<>>
    /\ IsSome(active_writer)
    /\ write_queue # <<>>

(***************************************************************************)
(* C13: when the leader re-check of an ExecuteQuery handler is answered    *)
(* with is_leader = false, the handler posts one QueryResponse addressed   *)
(* to the original requester, with no rows and the error "Only leader can  *)
(* execute queries", posts nothing to its sqlite worker, and ends.         *)
(***************************************************************************)
\* the page of p takes the LeaderResponse `answer` off its port and hands it
\* to its pending task t
Answered(p, t, answer) ==
    /\ client[p].stage = "open" /\ client'[p].stage = "open"
    /\ t \in DOMAIN client[p].tasks
    /\ client[p].tasks[t].pc = "check"
    /\ client[p].response_sender = Some(t)
    /\ to_tab[p] # <<>> /\ Head(to_tab[p]) = LeaderResponse(answer)
    /\ to_tab'[p] = Tail(to_tab[p])

C15_ExecutorFailureIsError ==
    [][\A p \in Tabs : \A t \in 1..(2 * MaxCalls) :
          (/\ t \in DOMAIN client[p].tasks
           /\ client[p].tasks[t].kind = "handler"
           /\ client[p].tasks[t].executor = ""
           /\ client'[p].tasks[t].executor = "failed") =>
             to_broker'[p] =
                Append(to_broker[p],
                       QueryResponse(<<>>, client[p].tasks[t].requester,
                                     Some(PrepareError)))]_vars

(***************************************************************************)
(* C16: after any sequence of Register and Disconnect messages, tabs holds *)
(* no id twice and every id of tabs has an entry in ports.                 *)
(***************************************************************************)
C16_RegistryInvariant ==
    /\ \A i, j \in DOMAIN tabs : i # j => tabs[i] # tabs[j]
    /\ \A i \in DOMAIN tabs : tabs[i] \in DOMAIN ports

\* three ids are registered after removals and repeated Register messages
C16_Witness ==
    /\ Len(tabs) = 3
    /\ reg_clock > 3
    /\ reregistered > 0

(***************************************************************************)
(* C17: Register for an id that is registered already leaves tabs, and so  *)
(* the position of every id and the leader, unchanged.                     *)
(***************************************************************************)
C17_RegisterIdempotent ==
    [][\A id \in Tabs, port \in Tabs :
          (Contains(tabs, id) /\ RegisterArrives(id, port)) =>
             /\ tabs' = tabs
             /\ get_leader' = get_leader
             /\ registered_at' = registered_at]_vars

\* Register messages for registered ids were handled while three ids were
\* registered, one of them on another port than its own
C17_Witness ==
    /\ reregistered = MaxReregistrations
    /\ Len(tabs) = 3
    /\ \E i \in DOMAIN tabs : ports[tabs[i]] # tabs[i]

(***************************************************************************)
(* C18: the id registered into an empty registry is the leader, and every  *)
(* CheckLeader is answered, on the port it came from, with is_leader =     *)
(* true exactly when its id is the leader: false for an id registered      *)
(* later and for an id that is not registered.                             *)
(***************************************************************************)
C18_FirstRegisteredLeads ==
    [][\A p \in Tabs :
          (to_broker[p] # <<>> /\ to_broker'[p] = Tail(to_broker[p])) =>
             LET msg == Head(to_broker[p]) IN
             /\ (msg.type = "Register" /\ tabs = <<>>) =>
                   get_leader' = Some(msg.tab_id)
             /\ (msg.type = "CheckLeader" /\ client[p].stage # "closed") =>
                   to_tab'[p] = Append(to_tab[p],
                                       LeaderResponse(/\ tabs # <<>>
                                                      /\ tabs[1] = msg.tab_id))]_vars

\* tab2 registered into the registry that tab1 had left empty and was told
\* it leads; tab1, no longer registered, was told it does not
C18_Witness ==
    /\ tabs = <<"tab2">>
    /\ reg_clock = 2
    /\ \E i \in DOMAIN to_tab["tab2"] : to_tab["tab2"][i] = LeaderResponse(TRUE)
    /\ \E i \in DOMAIN to_tab["tab1"] : to_tab["tab1"][i] = LeaderResponse(FALSE)

(***************************************************************************)
(* C19: when notify_tab_closed or simulate_tab_timeout closes the active   *)
(* tab while some other registered tab has a heartbeat younger than 5000   *)
(* ms, the active tab afterwards is one of those other tabs, and so never  *)
(* the closed tab.                                                         *)
(***************************************************************************)
\* the call of this step closes the tab `id`, which is the active tab
ClosesActive(id) ==
    /\ last_tab_call'.name \in {"notify_tab_closed", "simulate_tab_timeout"}
    /\ last_tab_call'.tab_id = id
    /\ active_tab = Some(id)

\* the other registered tabs whose heartbeat is younger than the timeout
HealthyOthers(id) == {t \in DOMAIN tab_health \ {id} : now - tab_health[t] < TimeoutMs}

C19_MigrationToHealthyTab ==
    [][\A id \in Tabs :
          (ClosesActive(id) /\ HealthyOthers(id) # {}) =>
             /\ IsSome(active_tab')
             /\ Unwrap(active_tab') \in HealthyOthers(id)
             /\ Unwrap(active_tab') # id]_vars

\* the active tab tab1 was closed while tab2 was healthy and tab3 was stale,
\* and tab2 is the active tab now
C19_Witness ==
    /\ last_tab_call = TabCall("notify_tab_closed", "tab1", Some("tab1"))
    /\ active_tab = Some("tab2")
    /\ "tab3" \in DOMAIN tab_health
    /\ now - tab_health["tab3"] >= TimeoutMs

(***************************************************************************)
(* C20: with three or more tabs registered, closing the active tab makes   *)
(* the earliest-registered surviving healthy tab the active tab.           *)
(***************************************************************************)
C20_FailoverByRegistrationOrder ==
    [][\A id \in Tabs :
          (/\ ClosesActive(id)
           /\ Cardinality(DOMAIN tab_health) >= 3
           /\ HealthyOthers(id) # {}) =>
             \E t \in HealthyOthers(id) :
                /\ active_tab' = Some(t)
                /\ \A u \in HealthyOthers(id) :
                      tab_registered_at[t] <= tab_registered_at[u]]_vars

(***************************************************************************)
(* C21: under fair message delivery, a query_leader call of a registered   *)
(* participant that is not the leader, made while a leader is registered,  *)
(* eventually resolves (with the data the leader saved), as long as no     *)
(* page posts Disconnect.                                                  *)
(***************************************************************************)
QueryLeaderPending(p, t) ==
    /\ t \in DOMAIN client[p].tasks
    /\ client[p].tasks[t].kind = "query_leader"
    /\ client[p].tasks[t].pc = "check"

C21_LeaderDataReachesFollower ==
    \A p \in Tabs : \A t \in 1..(2 * MaxCalls) :
       (/\ QueryLeaderPending(p, t)
        /\ Contains(tabs, p) /\ Head(tabs) # p
        /\ \A q \in Tabs : ~client[q].disconnect_posted)
          ~> (\/ ~QueryLeaderPending(p, t)
              \/ \E q \in Tabs : client[q].disconnect_posted)

(***************************************************************************)
(* C22: a BrowserSQLite.query whose check_leader is answered with          *)
(* is_leader = true is posted to the page's own sqlite worker and posts    *)
(* nothing to the broker; no ExecuteQuery for the sql of such a query is   *)
(* ever in flight.                                                         *)
(***************************************************************************)
\* some port carries an ExecuteQuery for `sql`
ExecuteQueryInFlight(sql) ==
    \E q \in Tabs :
       \/ \E i \in DOMAIN to_broker[q] :
             to_broker[q][i].type = "ExecuteQuery" /\ to_broker[q][i].sql = sql
       \/ \E i \in DOMAIN to_tab[q] :
             to_tab[q][i].type = "ExecuteQuery" /\ to_tab[q][i].sql = sql

PoolCalled(n) == pool_calls' = pool_calls + 1 /\ last_pool_call'.name = n

\* C23: the pool never holds more than max_size slots, whatever acquire,
\* release and cleanup_stale_connections were called; acquire answers
\* "Pool exhausted", leaving the pool as it was, exactly when no slot is free
\* and the pool holds max_size slots; otherwise it hands out a slot of the
\* pool: a free one, marked reused, when there is one, and a new one when
\* there is none.
C23_PoolBound ==
    /\ [](IsSome(max_size) => Cardinality(DOMAIN connections) <= Unwrap(max_size))
    /\ [][PoolCalled("acquire") =>
            LET full == FreeSlots = {} /\ Cardinality(DOMAIN connections) = Unwrap(max_size)
                r == last_pool_call'
            IN /\ ~r.ok <=> full
               /\ ~r.ok => r.error = "Pool exhausted" /\ connections' = connections
               /\ r.ok =>
                    LET conn == Unwrap(r.conn) IN
                    /\ conn.id \in DOMAIN connections' /\ connections'[conn.id] = conn
                    /\ conn.initialized
                    /\ IF FreeSlots # {}
                       THEN /\ conn.id \in FreeSlots /\ conn.reused
                            /\ DOMAIN connections' = DOMAIN connections
                       ELSE /\ ~conn.reused
                            /\ Cardinality(DOMAIN connections) < Unwrap(max_size)]_vars

\* C23: a pool of three slots, all acquired, has refused one more acquire
C23_Witness ==
    /\ max_size = Some(MaxPoolSize)
    /\ Cardinality(DOMAIN connections) = MaxPoolSize
    /\ last_pool_call.name = "acquire" /\ ~last_pool_call.ok
    /\ last_pool_call.error = "Pool exhausted"


\* C24: cleanup_stale_connections removes exactly the free slots last used
\* StaleThresholdMs or more ago; a slot that was acquired and is not yet
\* released stays in the pool.
C24_CleanupEvictsOnlyFree ==
    [][PoolCalled("cleanup_stale_connections") =>
         \A id \in DOMAIN connections :
            /\ id \notin DOMAIN connections'
                 <=> /\ ~connections[id].initialized
                     /\ now - connections[id].last_used >= StaleThresholdMs
            /\ id \in DOMAIN held => id \in DOMAIN connections']_vars


C26_RouteQueryThroughActiveTab ==
    [][(last_tab_call'.name = "route_query" /\ now' = now) =>
         /\ IsSome(active_tab) =>
               route_result' = Some([ok |-> TRUE,
                                     value |-> Some([routed_through |-> Unwrap(active_tab),
                                                     data |-> <<>>]),
                                     error |-> ""])
         /\ ~IsSome(active_tab) =>
               route_result' = Some([ok |-> FALSE, value |-> None,
                                     error |-> "No active tab available"])
         /\ UNCHANGED <<active_writer, write_queue, active_readers, active_tab,
                        tab_health, pending_operations, current_transaction>>]_vars

\* C26: a tab that is not registered asked, and its query was routed through
\* the active tab
C26_Witness ==
    /\ last_tab_call.name = "route_query"
    /\ last_tab_call.tab_id \notin DOMAIN tab_health
    /\ IsSome(active_tab) /\ Unwrap(active_tab) \in DOMAIN tab_health
    /\ IsSome(route_result) /\ Unwrap(route_result).ok
    /\ Unwrap(Unwrap(route_result).value).routed_through = Unwrap(active_tab)


\* C27: the log of pending operations is append-only: a call of
\* queue_operation adds one record at the end and keeps the records before
\* it, every other call (about tabs, with the migration it triggers, about
\* access, about transactions) leaves the log as it is, and so the log that
\* get_completed_operations returns has one record for each call of
\* queue_operation.
C27_LogAppendOnly ==
    /\ [](Len(get_completed_operations) = queue_calls)
    /\ [][IF queue_calls' = queue_calls + 1
          THEN /\ Len(pending_operations') = Len(pending_operations) + 1
               /\ SubSeq(pending_operations', 1, Len(pending_operations))
                     = pending_operations
               /\ pending_operations'[Len(pending_operations')].tab_id
                     = last_tab_call'.tab_id
          ELSE pending_operations' = pending_operations]_vars

\* C27: two operations are logged, and the active tab has since been closed
\* and replaced by migration while a transaction is open and a writer active
C27_Witness ==
    /\ Len(pending_operations) = MaxQueueOperations
    /\ last_tab_call.name = "notify_tab_closed"
    /\ last_tab_call.active_before = Some(last_tab_call.tab_id)
    /\ IsSome(active_tab) /\ active_tab # last_tab_call.active_before
    /\ IsSome(current_transaction)
    /\ IsSome(active_writer)


\* C28: a write requested while a transaction is active is rejected without
\* being enqueued: write_queue, active_writer and active_readers stay as they
\* are, no queued request stands for it, so that no later drain can grant it,
\* and the answer reports the length of the write queue as queue_position.
C28_RejectedWriteNotEnqueued ==
    [][(/\ last_call'.name = "request_access"
        /\ last_call'.operation = "write"
        /\ IsSome(current_transaction)) =>
         /\ UNCHANGED <<write_queue, active_writer, active_readers>>
         /\ enqueued' = enqueued /\ grant_log' = grant_log
         /\ \A i \in DOMAIN write_queue' : write_queue'[i].ticket <= enqueued
         /\ response' = Some([granted |-> FALSE,
                              worker_id |-> last_call'.worker_id,
                              operation |-> "write",
                              queue_position |-> Some(Len(write_queue))])]_vars

\* C28: a write was rejected in a transaction while two requests wait in the
\* queue; it was told position 2 and the queue still holds those two
C28_Witness ==
    /\ last_call.name = "request_access" /\ last_call.operation = "write"
    /\ IsSome(current_transaction)
    /\ Len(write_queue) = 2
    /\ \A i \in DOMAIN write_queue : write_queue[i].worker_id # last_call.worker_id
    /\ IsSome(response) /\ ~Unwrap(response).granted
    /\ Unwrap(response).queue_position = Some(2)

\* C29: complete_operation(id) clears active_writer only when it is id and
\* takes id out of active_readers; the write queue and the transaction are
\* unchanged and no queued request is granted; when id holds no access,
\* also when it only waits in the queue, nothing changes.
C29_CompleteOperationFrame ==
    [][last_call'.name = "complete_operation" =>
         LET id == last_call'.worker_id IN
         /\ active_writer' = IF active_writer = Some(id) THEN None ELSE active_writer
         /\ active_readers' = active_readers \ {id}
         /\ UNCHANGED <<write_queue, current_transaction, grant_log, enqueued>>
         /\ response' = None
         /\ (active_writer # Some(id) /\ id \notin active_readers) =>
               UNCHANGED <<active_writer, active_readers, write_queue,
                           current_transaction>>]_vars

\* C29: the last holder completed, the lock is free and a request still waits
C29_Witness ==
    /\ last_call.name = "complete_operation"
    /\ active_writer = None /\ active_readers = {}
    /\ write_queue # <<>>
    /\ grant_log = <<>>

\* C30: commit_transaction changes the transaction record and nothing else:
\* active_writer, active_readers and the write queue, contents and order,
\* are the same after the call, and no queued request is granted by it.
C30_CommitChangesOnlyTransaction ==
    [][last_call'.name = "commit_transaction" =>
         /\ current_transaction' = None
         /\ UNCHANGED <<active_writer, active_readers, write_queue>>
         /\ UNCHANGED <<grant_log, enqueued, active_tab, tab_health, pending_operations>>
         /\ response' = None]_vars

\* C30: a transaction was committed while the lock is free and two requests
\* wait in the queue; they still wait
C30_Witness ==
    /\ last_call.name = "commit_transaction"
    /\ current_transaction = None
    /\ active_writer = None /\ active_readers = {}
    /\ Len(write_queue) = 2
    /\ grant_log = <<>>


\* page p takes a QueryResponse from its port
TakesQueryResponse(p) ==
    /\ client[p].stage = "open" /\ client'[p].stage = "open"
    /\ to_tab[p] # <<>> /\ Head(to_tab[p]).type = "QueryResponse"
    /\ to_tab'[p] = Tail(to_tab[p])

\* the broker takes a QueryResponse from port p
BrokerTakesQueryResponse(p) ==
    /\ to_broker[p] # <<>> /\ Head(to_broker[p]).type = "QueryResponse"
    /\ to_broker'[p] = Tail(to_broker[p])

\* C31: a QueryResponse taken by a page that has no route_query pending, or
\* that carries another tab's id, resolves nothing and leaves the whole state
\* of the page as it was; a QueryResponse for a tab without a registered
\* port is dropped by the broker, which posts nothing and keeps its registry.
C31_UnmatchedResponseDropped ==
    [][/\ \A p \in Tabs :
            (/\ TakesQueryResponse(p)
             /\ \/ ~\E t \in TasksOf(p) : RoutePending(p, t)
                \/ Head(to_tab[p]).from_tab_id # client[p].tab_id)
               => client'[p] = client[p]
       /\ \A p \in Tabs :
            (/\ BrokerTakesQueryResponse(p)
             /\ Head(to_broker[p]).from_tab_id \notin DOMAIN ports)
               => /\ to_tab' = to_tab
                  /\ UNCHANGED <<tabs, ports, registered_at>>]_vars

\* C31: a QueryResponse addressed to page p waits at the head of its port
\* while p has no route_query pending, and p is about to take it
C31_Witness ==
    \E p \in Tabs :
       /\ client[p].stage = "open"
       /\ to_tab[p] # <<>> /\ Head(to_tab[p]).type = "QueryResponse"
       /\ Head(to_tab[p]).from_tab_id = client[p].tab_id
       /\ client[p].query_response_sender = None
       /\ \E t \in TasksOf(p) : client[p].tasks[t].kind = "query"
       /\ ~\E t \in TasksOf(p) : RoutePending(p, t)


\* C32: when closing or timing out the active tab makes another tab the
\* active tab, the heartbeat of that tab is less than TimeoutMs old; a tab
\* whose heartbeat is TimeoutMs old or older is never selected.
C32_SelectedTabIsFresh ==
    [][\A id \in Tabs :
          (/\ ClosesActive(id) /\ now' = now
           /\ IsSome(active_tab') /\ active_tab' # active_tab) =>
             LET t == Unwrap(active_tab') IN
             /\ t \in DOMAIN tab_health
             /\ now - tab_health[t] < TimeoutMs]_vars

\* C32: the active tab timed out while the heartbeat of the only other tab
\* was exactly TimeoutMs old, and no tab was selected
C32_Witness ==
    /\ last_tab_call.name = "simulate_tab_timeout"
    /\ last_tab_call.active_before = Some(last_tab_call.tab_id)
    /\ active_tab = None
    /\ Cardinality(DOMAIN tab_health) = 1
    /\ \A t \in DOMAIN tab_health : now - tab_health[t] = TimeoutMs


C34_NoWriterGrantedInTransaction ==
    [][(IsSome(current_transaction) /\ IsSome(current_transaction')) =>
          (active_writer' = active_writer \/ active_writer' = None)]_vars

\* C35: the transaction belongs to the tab that began it until that tab
\* commits: a begin_transaction while a transaction is active keeps the owner,
\* and a commit_transaction by a tab that is not the owner keeps the
\* transaction.
C35_TransactionOwnership ==
    [][/\ (last_call'.name = "begin_transaction" /\ IsSome(current_transaction))
             => current_transaction' = current_transaction
       /\ (/\ last_call'.name = "commit_transaction"
           /\ IsSome(current_transaction)
           /\ last_call'.worker_id # Unwrap(current_transaction))
             => current_transaction' = current_transaction]_vars


\* C36: the leader of the broker stays the leader through every message the
\* broker handles (Register of a new or of a registered id, CheckLeader,
\* QueryLeader, ExecuteQuery, QueryResponse, LeaderDataResponse, Disconnect
\* of another id); it stops being the leader only in the step that handles a
\* Disconnect of its own id.
C36_LeaderStable ==
    [][\A l \in Tabs :
          get_leader = Some(l) =>
             \/ get_leader' = Some(l)
             \/ \E port \in Tabs : DisconnectArrives(l, port)]_vars

\* C36: tab1 is still the leader after tab2 registered, ids were registered
\* again, tab1 itself from the port of tab2, and two messages were forwarded
C36_Witness ==
    /\ get_leader = Some("tab1")
    /\ tabs = <<"tab1", "tab2">>
    /\ reregistered = MaxReregistrations
    /\ ports["tab1"] = "tab2"
    /\ Forwarded(to_tab) = MaxForwarded


\* C37: the active tab of MockCoordinator is unset or is a registered tab (a
\* key of tab_health), whatever register_tab, set_active_tab,
\* notify_tab_closed and simulate_tab_timeout were called; a closed tab is
\* not the active tab.
C37_ActiveTabIsRegistered ==
    IsSome(active_tab) => Unwrap(active_tab) \in DOMAIN tab_health

\* C38: no connection is handed out twice: the connections that are acquired
\* and not yet released have different ids, and an acquire that creates a
\* slot gives it an id that no slot of the pool has.
C38_NoConnectionHandedOutTwice ==
    /\ [](\A id \in DOMAIN held : held[id] = 1)
    /\ [][(/\ PoolCalled("acquire") /\ last_pool_call'.ok
           /\ ~Unwrap(last_pool_call'.conn).reused) =>
             Unwrap(last_pool_call'.conn).id \notin DOMAIN connections]_vars


\* C39: the handling of an ExecuteQuery by the leader is never aborted by the
\* arrival of another ExecuteQuery: no handler loses the Sender of its
\* CheckLeader re-check and ends in the panic of its unwrap(), so that each
\* forwarded query is answered by its own QueryResponse.
C39_NoHandlerAborted ==
    [][\A p \in Tabs :
          (/\ client[p].stage = "open"
           /\ to_tab[p] # <<>> /\ Head(to_tab[p]).type = "ExecuteQuery"
           /\ to_tab'[p] = Tail(to_tab[p])) =>
             \A t \in TasksOf(p) :
                (/\ client[p].tasks[t].kind = "handler"
                 /\ client[p].tasks[t].pc # "panicked")
                   => client'[p].tasks[t].pc # "panicked"]_vars


\* C40: the rows of a QueryResponse answer the sql of its own requester: a
\* handler that gets an answer of the sqlite worker posts the result of the
\* sql that came in its ExecuteQuery, also when the worker holds two routed
\* queries at the same time.
C40_ResponseAnswersOwnSql ==
    [][\A p \in Tabs : \A t \in TasksOf(p) :
          LET task == client[p].tasks[t] IN
          (/\ task.kind = "handler" /\ task.pc = "exec"
           /\ \A i \in DOMAIN client[p].worker_inbox :
                 client[p].tasks[client[p].worker_inbox[i].task].kind = "handler"
           /\ client'[p].stage = "open"
           /\ client'[p].tasks[t].pc = "done"
           /\ client'[p].tasks[t].executor = "ok") =>
             to_broker'[p] =
                Append(to_broker[p],
                       QueryResponse(
                          ParseRows(WorkerPosted(WorkerResult(
                             [query |-> TRUE, sql |-> task.sql, task |-> t], "ok"))),
                          task.requester, None))]_vars

====
